---- MODULE Spec2Model ----
(***************************************************************************)
(* Spotter: an HTTP load generator.  main builds one request and one      *)
(* client, spawns `clients` goroutines running bench, each of which makes  *)
(* `requests` attempts and sends one *Output per attempt on a buffered     *)
(* channel; main waits on a sync.WaitGroup, closes the channel, drains it  *)
(* into counters and a ResultFile, and prints the report.                  *)
(*                                                                         *)
(* src/Spotter.go holds two revisions of the program, one after the other: *)
(*   revision 1, lines   1..320: bench classifies inline (201..235), the   *)
(*               client has no CheckRedirect (131..134);                   *)
(*   revision 2, lines 321..688: bench calls crunchRequest (589..623), the *)
(*               client has the CheckRedirect of 505..514.                 *)
(* The variable `revision` says which one runs; everything else is shared. *)
(***************************************************************************)
EXTENDS Integers, Sequences, FiniteSets, TLC

\* ---------------------------------------------------------------- bounds
\* Goroutines, requests per goroutine, and attempts of a whole run.
MaxClients == 2
MaxRequests == 2
MaxAttempts == 4
\* The largest value of -redirects and the longest redirect chain a server
\* answers one attempt with.
MaxRedirects == 1
MaxChain == 2
\* The most -header flags of one command line.
MaxHeaders == 2

\* ------------------------------------------------------ the environment
\* Status codes a server answers with.  302 stands for the redirects the
\* net/http client may follow; 300 is a 3xx it never follows; 101 is the
\* one status below 200 the transport hands back.
StatusCodes == {101, 200, 299, 300, 302}
RedirectStatuses == {302}
\* Response body texts.
Bodies == {"a", "b"}
\* The values of -data: no body, or a body of two bytes.
RequestBodies == {<< >>, <<"x", "y">>}
\* Command-line texts are sequences of tokens; ":" and "//" are the
\* separators the code looks for, "%zz" is an escape url.Parse rejects.
TargetURLs ==
    {<<"example.com", "/path">>,
     <<"//", "example.com", "/path">>,
     <<"http", ":", "//", "example.com", "/path">>,
     <<"https", ":", "//", "example.com">>,
     <<"example.com", "%zz">>,
     <<":", "//", "example.com">>}
SchemeWords == {"http", "https"}
PathTokens == {"/path", "%zz"}
HeaderValues ==
    {<<"X-Foo", ":", "bar">>, <<"X-Foo">>, <<"a", ":", "b", ":", "c">>}
\* -type: a method http.NewRequest accepts and one it rejects.
RequestMethods == {"GET", "GE T"}
\* -data names no file, a file that opens, or a file that does not.
BodyFiles == {"none", "opens", "missing"}

VARIABLES
    revision,      \* 1 or 2: which main/bench of src/Spotter.go runs
    clients,       \* flag -c / -clients
    requests,      \* flag -n / -requests
    redirects,     \* flag -redirects (revision 2 only; 0 and unread in 1)
    requestBody,   \* flag -d / -data, as the bytes of the body
    bodyFile,      \* whether -data is "@file", and whether the file opens
    requestMethod, \* flag -r / -type
    requestHeaders,\* flag -h / -header, in command-line order
    urlDirty,      \* the positional argument
    urlClean,      \* the parsed target
    httpRequest,   \* the request createHttpRequest built
    exitCause,     \* why the process exited early: interrupt, fatal, declined
    exitedAt,      \* where main stood when the process exited early
    outputFile,    \* flag -o / -output; "" when it is not given
    disk,          \* the output file: untouched, truncated, written, failed
    lines,         \* Print calls of the report made so far
    classified,    \* outcomes built so far, per category
    enqueued,      \* every Output sent on the channel, in send order
    doneSignals,   \* per goroutine: calls of barrier.Done so far
    mainPc,        \* position of main
    spawned,       \* i of the spawn loop
    barrier,       \* counter of the sync.WaitGroup
    chanCap,       \* capacity of bufferedChan
    bufferedChan,  \* queued *Output values
    closed,        \* close(bufferedChan) has run
    panicked,      \* a goroutine panicked (send on a closed channel)
    total, netFailed, badFailed, succ,
    file,          \* the ResultFile
    printed,       \* what the final Printf lines wrote, or NotPrinted
    worker,        \* per goroutine: pc, i, off, att, out
    bodyPos,       \* read offset of the one body reader of conf.request
    attempts,      \* per goroutine: calls of conf.client.Do so far
    emitted,       \* per goroutine: sends on conf.resultBuffer so far
    sigChannel     \* signals queued for the interrupt listener

vars == <<revision, clients, requests, redirects, requestBody, bodyFile,
          requestMethod, requestHeaders, urlDirty, urlClean, httpRequest,
          exitCause, exitedAt, outputFile, disk, lines, classified, enqueued,
          doneSignals, mainPc, spawned,
          barrier, chanCap, bufferedChan, closed, panicked, total, netFailed,
          badFailed, succ, file, printed, worker, bodyPos, attempts, emitted,
          sigChannel>>

config == <<revision, clients, requests, redirects, requestBody, bodyFile,
            requestMethod, requestHeaders, urlDirty, outputFile>>
\* What the steps from make(chan) to the drain leave alone.
persisted == <<disk, lines>>
history == <<classified, enqueued, doneSignals>>
aux == <<urlClean, httpRequest, exitCause, exitedAt>>
counters == <<total, netFailed, badFailed, succ, file>>
signals == <<sigChannel>>

Ids == 0 .. (clients - 1)

\* ------------------------------------------------------------- records
\* Output.  Revision 1 has a third field, timedOut, that bench writes and
\* nothing reads; it is left out.
Output(category, respBody) == [category |-> category, respBody |-> respBody]

NoOutput == Output("", "")

\* What one call of conf.client.Do did and returned.
\*   nreq   requests sent (the first one and one per redirect followed)
\*   redirs redirect responses received
\*   err    "" (err == nil), "transport", or "redirect" (CheckRedirect failed)
\*   status, readErr, body: the response returned when err == nil
\*   sent   the request body bytes read from conf.request for this attempt
NoAttempt ==
    [nreq |-> 0, redirs |-> 0, err |-> "", status |-> 0, readErr |-> FALSE,
     body |-> "", sent |-> << >>]

IdleWorker(pc) ==
    [pc |-> pc, i |-> 0, off |-> 0, att |-> NoAttempt, out |-> NoOutput]

NotPrinted == [total |-> -1, succ |-> -1, netFailed |-> -1, badFailed |-> -1]
EmptyFile == [Net |-> << >>, Bad |-> << >>, Succ |-> << >>]

\* ------------------------------------------------------ pure functions
\* make(chan *Output, requests*int64(clients))
ChanCapacityPerClient(n, c) == n
ChanCapacityUnbuffered(n, c) == 0
ChanCapacity(n, c) == n * c

\* barrier.Add(delta) adds delta to the WaitGroup counter.
WaitGroupAddOne(b, delta) == b + 1
WaitGroupAdd(b, delta) == b + delta

\* barrier.Wait() returns when the WaitGroup counter is zero.
BarrierWaitReturnsEarly(b) == b <= 1
BarrierWaitReturns(b) == b = 0

\* The loop condition of bench: `result.requests < conf.requests` with the
\* counter starting at 0 (revision 1), `i <= conf.requests` with i starting
\* at 1 (revision 2).
BenchFirstIndex(rev) == IF rev = 1 THEN 0 ELSE 1
BenchLoopCondShort(rev, i, n) == IF rev = 1 THEN i < n - 1 ELSE i < n
BenchLoopCond(rev, i, n) == IF rev = 1 THEN i < n ELSE i <= n

\* httpClient.CheckRedirect: lenReqList is len(reqList), the requests made
\* so far for this attempt (at least 1 when net/http calls it).
CheckRedirectNoNever(maxRedirects, lenReqList) ==
    IF lenReqList > maxRedirects THEN "error" ELSE "nil"
CheckRedirectOffByOne(maxRedirects, lenReqList) ==
    CASE maxRedirects = -1 -> "ErrUseLastResponse"
      [] lenReqList >= maxRedirects -> "error"
      [] OTHER -> "nil"
CheckRedirectCountsFollowed(maxRedirects, lenReqList) ==
    CASE maxRedirects = -1 -> "ErrUseLastResponse"
      [] lenReqList - 1 > maxRedirects -> "error"
      [] OTHER -> "nil"
CheckRedirect(maxRedirects, lenReqList) ==
    CASE maxRedirects = -1 -> "ErrUseLastResponse"
      [] lenReqList > maxRedirects -> "error"
      [] OTHER -> "nil"

\* The redirect policy of the client each revision builds.  Revision 1 sets
\* no CheckRedirect, so net/http applies its default: stop after 10 requests.
ClientCheckRedirect(rev, maxRedirects, lenReqList) ==
    IF rev = 2 THEN CheckRedirect(maxRedirects, lenReqList)
    ELSE IF lenReqList >= 10 THEN "error" ELSE "nil"

\* The status test of crunchRequest.
IsSuccessStatus(statusCode) == statusCode >= 200 /\ statusCode < 300

\* crunchRequest, from the return of conf.client.Do on.
crunchRequest(att) ==
    IF att.err # "" THEN Output("net", att.err)
    ELSE IF att.readErr THEN Output("bad", "readerr")
    ELSE IF IsSuccessStatus(att.status) THEN Output("succ", att.body)
    ELSE Output("bad", att.body)

\* The body of the loop of revision 1's bench, from the return of
\* conf.client.Do on: a failed ReadAll is printed and the status decides.
benchOutput(att) ==
    IF att.err # "" THEN Output("net", att.err)
    ELSE IF att.status = 200 THEN Output("succ", att.body)
    ELSE Output("bad", att.body)

\* One Read of the shared body reader by a caller that loaded offset off:
\* the bytes from off on.
ReadFrom(body, off) ==
    IF off >= Len(body) THEN << >> ELSE SubSeq(body, off + 1, Len(body))

\* One step of `for output := range bufferedChan`: the counter and the
\* body list of category cat, and total.
DrainCountNoBad(cat, output, n) ==
    IF output.category = cat /\ cat # "bad" THEN n + 1 ELSE n
DrainCountFallthrough(cat, output, n) ==
    IF output.category = cat \/ output.category = "net" THEN n + 1 ELSE n
DrainCount(cat, output, n) == IF output.category = cat THEN n + 1 ELSE n
DrainPrepend(cat, output, bodies) ==
    IF output.category = cat THEN <<output.respBody>> \o bodies ELSE bodies
DrainAppend(cat, output, bodies) ==
    IF output.category = cat THEN Append(bodies, output.respBody) ELSE bodies
DrainTotalInCase(output, n) == IF output.category = "net" THEN n ELSE n + 1
DrainTotal(output, n) == n + 1

\* The names the -o / -output flag can hold; "" is its default.
OutputFiles == {"", "out.json"}

\* main prints a failed write and goes on to the report.
AfterWriteFatal(ok) == IF ok THEN "report" ELSE "exited"
AfterWrite(ok) == "report"

\* The Print calls of the report: two Printf in revision 1, a Println and
\* six Printf in revision 2.
ReportLines(rev) == IF rev = 1 THEN 2 ELSE 7

\* The Print call of the report that shows a counter.
CounterLine(rev, field) ==
    IF rev = 1 THEN 1
    ELSE CASE field = "total" -> 2
           [] field = "succ" -> 3
           [] field = "netFailed" -> 4
           [] field = "badFailed" -> 5

\* What the terminal shows of a counter after n Print calls of the report.
PrintedField(rev, field, n, value, shown) ==
    IF n = CounterLine(rev, field) THEN value ELSE shown

\* The listener prints "Received ..., stopping!" and no line of the report.
ListenerFlushesReport(n) == n + 1
ListenerPrints(n) == n

\* ------------------------------------------------------------- startup
\* strings.Contains(uri, "://") and strings.HasPrefix(uri, "//")
HasSchemeSeparator(uri) ==
    \E i \in 1 .. (Len(uri) - 1) : uri[i] = ":" /\ uri[i + 1] = "//"
HasSlashPrefix(uri) == Len(uri) >= 1 /\ uri[1] = "//"

\* if !Contains && !HasPrefix { urlDirty = "//" + urlDirty }
PrefixSlashes(uri) ==
    IF ~HasSchemeSeparator(uri) /\ ~HasSlashPrefix(uri) THEN <<"//">> \o uri ELSE uri

\* url.Parse: a bad escape or a leading ":" is an error; a scheme is a
\* leading word followed by ":"; after "//" comes the host; the rest is
\* the path.
NoURL == [err |-> FALSE, scheme |-> "", host |-> "", path |-> << >>]
urlParse(uri) ==
    IF (\E i \in 1 .. Len(uri) : uri[i] = "%zz") \/ (Len(uri) >= 1 /\ uri[1] = ":")
    THEN [NoURL EXCEPT !.err = TRUE]
    ELSE LET hasScheme == Len(uri) >= 2 /\ uri[1] \in SchemeWords /\ uri[2] = ":"
             rest == IF hasScheme THEN SubSeq(uri, 3, Len(uri)) ELSE uri
             hasAuthority == Len(rest) >= 1 /\ rest[1] = "//"
             afterSlashes == IF hasAuthority THEN Tail(rest) ELSE rest
             hasHost == hasAuthority /\ Len(afterSlashes) >= 1
                            /\ afterSlashes[1] \notin PathTokens
         IN [err |-> FALSE,
             scheme |-> IF hasScheme THEN uri[1] ELSE "",
             host |-> IF hasHost THEN afterSlashes[1] ELSE "",
             path |-> IF hasHost THEN Tail(afterSlashes) ELSE afterSlashes]

\* The URL handling of main: revision 1 calls checkURL, which defaults an
\* empty scheme to http; revision 2 prefixes and parses inline and leaves
\* the scheme as parsed.
DefaultScheme(rev, scheme) == IF rev = 1 /\ scheme = "" THEN "http" ELSE scheme
NormalizeURL(rev, uri) ==
    LET u == urlParse(PrefixSlashes(uri))
    IN IF u.err THEN u ELSE [u EXCEPT !.scheme = DefaultScheme(rev, u.scheme)]

\* strings.Split(s, sep) on token sequences.
RECURSIVE SplitOn(_, _)
SplitOn(s, sep) ==
    IF \A i \in 1 .. Len(s) : s[i] # sep
    THEN <<s>>
    ELSE LET i == CHOOSE j \in 1 .. Len(s) :
                      s[j] = sep /\ \A k \in 1 .. (j - 1) : s[k] # sep
         IN <<SubSeq(s, 1, i - 1)>> \o SplitOn(SubSeq(s, i + 1, Len(s)), sep)

\* extractHeaderKV: `len(splitHeader) != 2` is fatal.
HeaderFieldsAtLeastTwo(n) == n >= 2
HeaderFieldsOK(n) == n = 2
extractHeaderKV(header) ==
    LET splitHeader == SplitOn(header, ":")
    IN IF HeaderFieldsOK(Len(splitHeader))
       THEN [fatal |-> FALSE, key |-> splitHeader[1], value |-> splitHeader[2]]
       ELSE [fatal |-> TRUE, key |-> << >>, value |-> << >>]

\* createHttpRequest: createHttpBody opens the file of "@file" (fatal when
\* it does not open), http.NewRequest rejects a bad method (fatal), and
\* every header is split and added (fatal on the first malformed one).
NoRequest == [built |-> FALSE, header |-> << >>]
createHttpRequest(method, source, hdrs) ==
    IF source = "missing" \/ method \notin {"GET"}
       \/ \E i \in 1 .. Len(hdrs) : extractHeaderKV(hdrs[i]).fatal
    THEN NoRequest
    ELSE [built |-> TRUE,
          header |-> [i \in 1 .. Len(hdrs) |->
                         <<extractHeaderKV(hdrs[i]).key, extractHeaderKV(hdrs[i]).value>>]]

\* The transport can send to the target: it has a scheme it supports and a
\* host.  Otherwise every conf.client.Do fails before any exchange.
Dialable(u) == u.scheme \in SchemeWords /\ u.host # ""

\* The state of a process that has just started: nothing made, spawned,
\* counted, printed or written.
Fresh ==
    /\ exitCause = ""
    /\ exitedAt = ""
    /\ disk = "untouched"
    /\ lines = 0
    /\ classified = [c \in {"net", "bad", "succ"} |-> 0]
    /\ enqueued = << >>
    /\ doneSignals = [w \in Ids |-> 0]
    /\ spawned = 0
    /\ barrier = 0
    /\ chanCap = 0
    /\ bufferedChan = << >>
    /\ closed = FALSE
    /\ panicked = FALSE
    /\ total = 0 /\ netFailed = 0 /\ badFailed = 0 /\ succ = 0
    /\ file = EmptyFile
    /\ printed = NotPrinted
    /\ worker = [w \in Ids |-> IdleWorker("unborn")]
    /\ bodyPos = 0
    /\ attempts = [w \in Ids |-> 0]
    /\ emitted = [w \in Ids |-> 0]
    /\ sigChannel = 0

\* ---------------------------------------------------------------- Init
\* The state of main after flag.Parse and createHttpRequest, at
\* signal.Notify: no channel, no goroutine yet.
Init ==
    /\ revision \in {1, 2}
    /\ clients \in 1 .. MaxClients
    /\ requests \in 1 .. MaxRequests
    /\ clients * requests <= MaxAttempts
    /\ redirects \in (IF revision = 2 THEN -1 .. MaxRedirects ELSE {0})
    /\ requestBody = << >>
    /\ bodyFile = "none"
    /\ requestMethod = "GET"
    /\ requestHeaders = << >>
    /\ urlDirty = <<"http", ":", "//", "example.com", "/path">>
    /\ urlClean = NormalizeURL(revision, urlDirty)
    /\ httpRequest = createHttpRequest(requestMethod, bodyFile, requestHeaders)
    /\ outputFile = ""
    /\ mainPc = "make"
    /\ Fresh

\* The process runs: os.Exit has not been called, nothing panicked, and main
\* has not returned.
Running == mainPc \notin {"done", "exited"} /\ ~panicked

\* os.Exit: the process ends where main stands and its memory, goroutines
\* and pending signals are gone.
ProcessGone ==
    /\ mainPc' = "exited"
    /\ exitedAt' = mainPc
    /\ worker' = [w \in Ids |-> IdleWorker("exited")]
    /\ bufferedChan' = << >>
    /\ enqueued' = << >>
    /\ spawned' = 0 /\ barrier' = 0 /\ chanCap' = 0 /\ closed' = FALSE
    /\ total' = 0 /\ netFailed' = 0 /\ badFailed' = 0 /\ succ' = 0
    /\ file' = EmptyFile
    /\ bodyPos' = 0
    /\ attempts' = [w \in Ids |-> 0]
    /\ emitted' = [w \in Ids |-> 0]
    /\ doneSignals' = [w \in Ids |-> 0]
    /\ classified' = [c \in {"net", "bad", "succ"} |-> 0]
    /\ sigChannel' = 0

\* ---------------------------------------------------------------- main
\* bufferedChan := make(chan *Output, requests*int64(clients))
MakeChan ==
    /\ Running /\ mainPc = "make"
    /\ chanCap' = ChanCapacity(requests, clients)
    /\ mainPc' = "add"
    /\ UNCHANGED <<config, aux, persisted, history, spawned, barrier, bufferedChan, closed, panicked,
                   counters, printed, worker, bodyPos, attempts, emitted, signals>>

\* barrier.Add(clients)
BarrierAdd ==
    /\ Running /\ mainPc = "add"
    /\ barrier' = WaitGroupAdd(barrier, clients)
    /\ spawned' = 0
    /\ mainPc' = "spawn"
    /\ UNCHANGED <<config, aux, persisted, history, chanCap, bufferedChan, closed, panicked, counters,
                   printed, worker, bodyPos, attempts, emitted, signals>>

\* for i := 0; i < clients; i++ { go bench(config, &barrier, i) }
Spawn ==
    /\ Running /\ mainPc = "spawn"
    /\ IF spawned < clients
       THEN /\ worker' = [worker EXCEPT ![spawned] =
                              [IdleWorker("loop") EXCEPT
                                  !.i = BenchFirstIndex(revision)]]
            /\ spawned' = spawned + 1
            /\ mainPc' = mainPc
       ELSE /\ mainPc' = "wait"
            /\ UNCHANGED <<worker, spawned>>
    /\ UNCHANGED <<config, aux, persisted, history, barrier, chanCap, bufferedChan, closed, panicked,
                   counters, printed, bodyPos, attempts, emitted, signals>>

\* barrier.Wait(); elapsed := ...
BarrierWait ==
    /\ Running /\ mainPc = "wait"
    /\ BarrierWaitReturns(barrier)
    /\ mainPc' = "close"
    /\ UNCHANGED <<config, aux, persisted, history, spawned, barrier, chanCap, bufferedChan, closed,
                   panicked, counters, printed, worker, bodyPos, attempts,
                   emitted, signals>>

\* close(bufferedChan)
CloseChan ==
    /\ Running /\ mainPc = "close"
    /\ closed' = TRUE
    /\ mainPc' = "drain"
    /\ UNCHANGED <<config, aux, persisted, history, spawned, barrier, chanCap, bufferedChan, panicked,
                   counters, printed, worker, bodyPos, attempts, emitted, signals>>

\* One iteration of `for output := range bufferedChan`.
Drain ==
    /\ Running /\ mainPc = "drain"
    /\ bufferedChan # << >>
    /\ LET output == Head(bufferedChan) IN
         /\ netFailed' = DrainCount("net", output, netFailed)
         /\ badFailed' = DrainCount("bad", output, badFailed)
         /\ succ' = DrainCount("succ", output, succ)
         /\ file' = [Net |-> DrainAppend("net", output, file.Net),
                     Bad |-> DrainAppend("bad", output, file.Bad),
                     Succ |-> DrainAppend("succ", output, file.Succ)]
         /\ total' = DrainTotal(output, total)
    /\ bufferedChan' = Tail(bufferedChan)
    /\ UNCHANGED <<config, aux, persisted, history, mainPc, spawned, barrier, chanCap, closed, panicked,
                   printed, worker, bodyPos, attempts, emitted, signals>>

\* The range loop ends when the channel is closed and empty.
DrainEnd ==
    /\ Running /\ mainPc = "drain"
    /\ bufferedChan = << >> /\ closed
    /\ mainPc' = "persist"
    /\ UNCHANGED <<config, aux, persisted, history, spawned, barrier, chanCap,
                   bufferedChan, closed, panicked, counters, printed, worker,
                   bodyPos, attempts, emitted, signals>>

\* ------------------------------------------------------------- persist
\* if outputFile != "": without the flag main goes on to the report.
PersistCheck ==
    /\ Running /\ mainPc = "persist"
    /\ mainPc' = IF outputFile # "" THEN "stat" ELSE "report"
    /\ UNCHANGED <<config, aux, disk, lines, history, spawned, barrier, chanCap,
                   bufferedChan, closed, panicked, counters, printed, worker,
                   bodyPos, attempts, emitted, signals>>

\* writeOutputFile: os.Stat(location) finds the file or does not.
StatOutputFile ==
    /\ Running /\ mainPc = "stat"
    /\ \E exists \in BOOLEAN : mainPc' = IF exists THEN "prompt" ELSE "write"
    /\ UNCHANGED <<config, aux, persisted, history, spawned, barrier, chanCap,
                   bufferedChan, closed, panicked, counters, printed, worker,
                   bodyPos, attempts, emitted, signals>>

\* The answer to "Overwrite file? (y/n)" is y; any answer other than y or
\* n repeats the question and changes nothing.
AnswerYes ==
    /\ Running /\ mainPc = "prompt"
    /\ mainPc' = "write"
    /\ UNCHANGED <<config, aux, persisted, history, spawned, barrier, chanCap,
                   bufferedChan, closed, panicked, counters, printed, worker,
                   bodyPos, attempts, emitted, signals>>

\* The answer is n: os.Exit(1).
AnswerNo ==
    /\ Running /\ mainPc = "prompt"
    /\ ProcessGone
    /\ exitCause' = "declined"
    /\ UNCHANGED <<config, urlClean, httpRequest, persisted, panicked, printed>>

\* ioutil.WriteFile opens the file, creating or truncating it; an open that
\* fails returns the error at once.
OpenOutputFile ==
    /\ Running /\ mainPc = "write"
    /\ \E ok \in BOOLEAN :
          /\ disk' = IF ok THEN "truncated" ELSE "failed"
          /\ mainPc' = IF ok THEN "writing" ELSE AfterWrite(ok)
    /\ UNCHANGED <<config, aux, lines, history, spawned, barrier,
                   chanCap, bufferedChan, closed, panicked, counters, printed,
                   worker, bodyPos, attempts, emitted, signals>>

\* ioutil.WriteFile writes the data and closes the file, or fails; main
\* prints the error and goes on.
WriteOutputFile ==
    /\ Running /\ mainPc = "writing"
    /\ \E ok \in BOOLEAN :
          /\ disk' = IF ok THEN "written" ELSE "failed"
          /\ mainPc' = AfterWrite(ok)
    /\ UNCHANGED <<config, aux, lines, history, spawned, barrier,
                   chanCap, bufferedChan, closed, panicked, counters, printed,
                   worker, bodyPos, attempts, emitted, signals>>

\* -------------------------------------------------------------- report
\* One Print call of the report; after the last one main returns.
Report ==
    /\ Running /\ mainPc = "report"
    /\ lines' = lines + 1
    /\ printed' = [total |-> PrintedField(revision, "total", lines', total, printed.total),
                   succ |-> PrintedField(revision, "succ", lines', succ, printed.succ),
                   netFailed |-> PrintedField(revision, "netFailed", lines',
                                              netFailed, printed.netFailed),
                   badFailed |-> PrintedField(revision, "badFailed", lines',
                                              badFailed, printed.badFailed)]
    /\ mainPc' = IF lines' = ReportLines(revision) THEN "done" ELSE mainPc
    /\ UNCHANGED <<config, aux, disk, history, spawned, barrier,
                   chanCap, bufferedChan, closed, panicked, counters, worker,
                   bodyPos, attempts, emitted, signals>>

\* --------------------------------------------------------------- bench
\* The responses that end an exchange without a redirect to follow.
\* A run of one goroutine meets every status code and body text; a run of
\* several meets one status per outcome and one body text.
Rich == clients = 1
ServerStatuses == IF Rich THEN StatusCodes ELSE {200, 300, 302}
ServerBodies == IF Rich THEN Bodies ELSE {"a"}
FinalStatuses == ServerStatuses \ RedirectStatuses

\* conf.client.Do returned for goroutine w with att.  The outcome is
\* computed and the goroutine stands before its send.
Returned(w, att) ==
    LET out == IF revision = 1 THEN benchOutput(att) ELSE crunchRequest(att)
    IN /\ worker' = [worker EXCEPT ![w] =
              IF revision = 1
              THEN [@ EXCEPT !.pc = "send", !.att = att, !.i = @ + 1, !.out = out]
              ELSE [@ EXCEPT !.pc = "send", !.att = att, !.out = out]]
       /\ classified' = [classified EXCEPT ![out.category] = @ + 1]

\* The loop condition holds: conf.client.Do(conf.request) is called and the
\* transport loads the offset of the request's body reader.
StartAttempt(w) ==
    /\ Running /\ worker[w].pc = "loop"
    /\ BenchLoopCond(revision, worker[w].i, requests)
    /\ worker' = [worker EXCEPT ![w].pc = "body", ![w].off = bodyPos]
    /\ attempts' = [attempts EXCEPT ![w] = @ + 1]
    /\ UNCHANGED <<config, aux, persisted, history, mainPc, spawned, barrier, chanCap, bufferedChan,
                   closed, panicked, counters, printed, bodyPos, emitted, signals>>

\* The transport reads the body to send from the shared reader and stores
\* the advanced offset.  Load and store are unsynchronised across
\* goroutines, so two of them may both load 0 and both read the whole body.
\* The store writes the loaded offset plus the bytes read, the end of the
\* body; a store that adds to a concurrently advanced offset leaves it
\* beyond the end, from where every later Read returns the same nothing.
SendBody(w) ==
    /\ Running /\ worker[w].pc = "body"
    /\ LET sent == ReadFrom(requestBody, worker[w].off) IN
         /\ worker' = [worker EXCEPT ![w].pc = "do",
                           ![w].att = [NoAttempt EXCEPT !.nreq = 1, !.sent = sent]]
         /\ IF sent = << >>
            THEN bodyPos' = bodyPos
            ELSE bodyPos' = worker[w].off + Len(sent)
    /\ UNCHANGED <<config, aux, persisted, history, mainPc, spawned, barrier, chanCap, bufferedChan,
                   closed, panicked, counters, printed, attempts, emitted, signals>>

\* The server answers the pending request with a redirect; the client asks
\* its redirect policy with the requests made so far.
Redirected(w) ==
    /\ Running /\ worker[w].pc = "do"
    /\ Dialable(urlClean)
    /\ worker[w].att.redirs < MaxChain
    /\ LET att == [worker[w].att EXCEPT !.redirs = @ + 1]
           decision == ClientCheckRedirect(revision, redirects, att.nreq)
       IN CASE decision = "nil" ->
                 /\ worker' = [worker EXCEPT ![w].att = [att EXCEPT !.nreq = @ + 1]]
                 /\ UNCHANGED classified
            [] decision = "ErrUseLastResponse" ->
                 \E status \in ServerStatuses \cap RedirectStatuses,
                    readErr \in BOOLEAN, body \in ServerBodies :
                    Returned(w, [att EXCEPT !.status = status,
                                            !.readErr = readErr, !.body = body])
            [] OTHER -> Returned(w, [att EXCEPT !.err = "redirect"])
    /\ UNCHANGED <<config, aux, persisted, enqueued, doneSignals, mainPc, spawned, barrier, chanCap, bufferedChan,
                   closed, panicked, counters, printed, bodyPos, attempts,
                   emitted, signals>>

\* The exchange of the pending request fails in the transport.
TransportFailed(w) ==
    /\ Running /\ worker[w].pc = "do"
    /\ Returned(w, [worker[w].att EXCEPT !.err = "transport"])
    /\ UNCHANGED <<config, aux, persisted, enqueued, doneSignals, mainPc, spawned, barrier, chanCap, bufferedChan,
                   closed, panicked, counters, printed, bodyPos, attempts,
                   emitted, signals>>

\* The server answers the pending request with a response that is no
\* redirect; ioutil.ReadAll of its body succeeds or fails.
Responded(w) ==
    /\ Running /\ worker[w].pc = "do"
    /\ Dialable(urlClean)
    /\ \E status \in FinalStatuses, readErr \in BOOLEAN, body \in ServerBodies :
          Returned(w, [worker[w].att EXCEPT !.status = status,
                                            !.readErr = readErr, !.body = body])
    /\ UNCHANGED <<config, aux, persisted, enqueued, doneSignals, mainPc, spawned, barrier, chanCap, bufferedChan,
                   closed, panicked, counters, printed, bodyPos, attempts,
                   emitted, signals>>

\* conf.resultBuffer <- output: blocks while the buffer is full, panics on a
\* closed channel.
Send(w) ==
    /\ Running /\ worker[w].pc = "send"
    /\ closed \/ Len(bufferedChan) < chanCap
    /\ IF closed
       THEN /\ panicked' = TRUE
            /\ UNCHANGED <<bufferedChan, worker, emitted, enqueued>>
       ELSE /\ bufferedChan' = Append(bufferedChan, worker[w].out)
            /\ enqueued' = Append(enqueued, worker[w].out)
            /\ emitted' = [emitted EXCEPT ![w] = @ + 1]
            /\ worker' = [worker EXCEPT ![w] =
                   [IdleWorker("loop") EXCEPT
                       !.i = IF revision = 1 THEN worker[w].i ELSE worker[w].i + 1]]
            /\ UNCHANGED panicked
    /\ UNCHANGED <<config, aux, persisted, classified, doneSignals, mainPc,
                   spawned, barrier, chanCap, closed, counters, printed,
                   bodyPos, attempts, signals>>

\* The loop condition fails: barrier.Done() and bench returns.  A WaitGroup
\* counter below zero panics.
BenchReturn(w) ==
    /\ Running /\ worker[w].pc = "loop"
    /\ ~BenchLoopCond(revision, worker[w].i, requests)
    /\ IF barrier = 0
       THEN /\ panicked' = TRUE
            /\ UNCHANGED <<barrier, worker, doneSignals>>
       ELSE /\ barrier' = barrier - 1
            /\ doneSignals' = [doneSignals EXCEPT ![w] = @ + 1]
            /\ worker' = [worker EXCEPT ![w].pc = "done"]
            /\ UNCHANGED panicked
    /\ UNCHANGED <<config, aux, persisted, classified, enqueued, mainPc, spawned, chanCap, bufferedChan, closed,
                   counters, printed, bodyPos, attempts, emitted, signals>>

\* ------------------------------------------------------------- signals
\* sigChannel := make(chan os.Signal, 2)
SigChannelCap == 2

\* os.Interrupt is delivered: signal.Notify queues it on sigChannel; a
\* signal that finds the channel full is dropped.
Interrupt ==
    /\ Running /\ mainPc \notin {"parse", "request"}
    /\ sigChannel' = IF sigChannel < SigChannelCap THEN sigChannel + 1 ELSE sigChannel
    /\ UNCHANGED <<config, aux, persisted, history, mainPc, spawned, barrier, chanCap, bufferedChan,
                   closed, panicked, counters, printed, worker, bodyPos,
                   attempts, emitted>>

\* The listener goroutine receives the signal, prints its own line and
\* calls os.Exit(0): the process and all its goroutines are gone; what was
\* printed and written stays.
Listener ==
    /\ Running /\ sigChannel > 0
    /\ ProcessGone
    /\ exitCause' = "interrupt"
    /\ lines' = ListenerPrints(lines)
    /\ UNCHANGED <<config, urlClean, httpRequest, disk, panicked, printed>>

\* ------------------------------------------------------ startup steps
\* main parses the target; an unparseable one ends the process (log.Fatalf
\* in checkURL, os.Exit(1) in revision 2).
ParseURL ==
    /\ mainPc = "parse"
    /\ urlClean' = NormalizeURL(revision, urlDirty)
    /\ IF urlClean'.err
       THEN mainPc' = "exited" /\ exitCause' = "fatal" /\ exitedAt' = mainPc
       ELSE mainPc' = "request" /\ UNCHANGED <<exitCause, exitedAt>>
    /\ UNCHANGED <<config, httpRequest, persisted, history, spawned, barrier, chanCap, bufferedChan,
                   closed, panicked, counters, printed, worker, bodyPos,
                   attempts, emitted, signals>>

\* httpRequest := createHttpRequest(...): log.Fatalf inside ends the process.
CreateRequest ==
    /\ mainPc = "request"
    /\ httpRequest' = createHttpRequest(requestMethod, bodyFile, requestHeaders)
    /\ IF httpRequest'.built
       THEN mainPc' = "make" /\ UNCHANGED <<exitCause, exitedAt>>
       ELSE mainPc' = "exited" /\ exitCause' = "fatal" /\ exitedAt' = mainPc
    /\ UNCHANGED <<config, urlClean, persisted, history, spawned, barrier, chanCap, bufferedChan,
                   closed, panicked, counters, printed, worker, bodyPos,
                   attempts, emitted, signals>>

Next ==
    \/ MakeChan \/ BarrierAdd \/ Spawn \/ BarrierWait \/ CloseChan
    \/ Drain \/ DrainEnd \/ PersistCheck \/ Report
    \/ \E w \in Ids : StartAttempt(w)
    \/ \E w \in Ids : SendBody(w)
    \/ \E w \in Ids : Redirected(w)
    \/ \E w \in Ids : TransportFailed(w)
    \/ \E w \in Ids : Responded(w)
    \/ \E w \in Ids : Send(w)
    \/ \E w \in Ids : BenchReturn(w)
    \/ Interrupt \/ Listener

Spec == Init /\ [][Next]_vars

\* The program from the start of main, one goroutine making one request,
\* over every target, header list, method and body file.
HeaderLists ==
    UNION {[1 .. n -> HeaderValues] : n \in 0 .. MaxHeaders}

InitStartup ==
    /\ revision \in {1, 2}
    /\ clients = 1
    /\ requests = 1
    /\ redirects \in (IF revision = 2 THEN -1 .. MaxRedirects ELSE {0})
    /\ bodyFile \in BodyFiles
    /\ requestBody \in (IF bodyFile = "missing" THEN {<< >>} ELSE RequestBodies)
    /\ requestMethod \in RequestMethods
    /\ requestHeaders \in HeaderLists
    /\ urlDirty \in TargetURLs
    /\ urlClean = NoURL
    /\ httpRequest = NoRequest
    /\ outputFile = ""
    /\ mainPc = "parse"
    /\ Fresh

NextStartup == ParseURL \/ CreateRequest \/ Next

SpecStartup == InitStartup /\ [][NextStartup]_vars

\* The program with and without the -o flag, every goroutine making one
\* request, over every course of writeOutputFile.
InitPersist ==
    /\ revision \in {1, 2}
    /\ clients \in 1 .. MaxClients
    /\ requests = 1
    /\ clients * requests <= MaxAttempts
    /\ redirects = 0
    /\ requestBody = << >>
    /\ bodyFile = "none"
    /\ requestMethod = "GET"
    /\ requestHeaders = << >>
    /\ urlDirty = <<"http", ":", "//", "example.com", "/path">>
    /\ urlClean = NormalizeURL(revision, urlDirty)
    /\ httpRequest = createHttpRequest(requestMethod, bodyFile, requestHeaders)
    /\ outputFile \in OutputFiles
    /\ mainPc = "make"
    /\ Fresh


\* The program with and without a request body, redirects followed under
\* the default policy of revision 1 and never past the first in revision 2.
InitBody ==
    /\ revision \in {1, 2}
    /\ clients \in 1 .. MaxClients
    /\ requests \in 1 .. MaxRequests
    /\ clients * requests <= MaxAttempts
    /\ redirects = 0
    /\ requestBody \in RequestBodies
    /\ bodyFile = "none"
    /\ requestMethod = "GET"
    /\ requestHeaders = << >>
    /\ urlDirty = <<"http", ":", "//", "example.com", "/path">>
    /\ urlClean = NormalizeURL(revision, urlDirty)
    /\ httpRequest = createHttpRequest(requestMethod, bodyFile, requestHeaders)
    /\ outputFile = ""
    /\ mainPc = "make"
    /\ Fresh

SpecBody == InitBody /\ [][Next]_vars

NextPersist ==
    \/ StatOutputFile \/ AnswerYes \/ AnswerNo
    \/ OpenOutputFile \/ WriteOutputFile
    \/ Next

SpecPersist == InitPersist /\ [][NextPersist]_vars

\* The program when no interrupt arrives, under fair scheduling: main takes
\* its next step when it can, every goroutine takes its next step when it
\* can (so every exchange and body read returns), and the question of
\* writeOutputFile gets a y or n answer.
MainStep ==
    \/ MakeChan \/ BarrierAdd \/ Spawn \/ BarrierWait \/ CloseChan
    \/ Drain \/ DrainEnd \/ PersistCheck \/ StatOutputFile
    \/ OpenOutputFile \/ WriteOutputFile \/ Report

WorkerStep(w) ==
    \/ StartAttempt(w) \/ SendBody(w) \/ Redirected(w) \/ TransportFailed(w)
    \/ Responded(w) \/ Send(w) \/ BenchReturn(w)

Answer == AnswerYes \/ AnswerNo

InitLive ==
    /\ revision \in {1, 2}
    /\ clients \in 1 .. MaxClients
    /\ requests \in 1 .. MaxRequests
    /\ clients * requests <= MaxAttempts
    /\ redirects = 0
    /\ requestBody = << >>
    /\ bodyFile = "none"
    /\ requestMethod = "GET"
    /\ requestHeaders = << >>
    /\ urlDirty = <<"http", ":", "//", "example.com", "/path">>
    /\ urlClean = NormalizeURL(revision, urlDirty)
    /\ httpRequest = createHttpRequest(requestMethod, bodyFile, requestHeaders)
    /\ outputFile \in OutputFiles
    /\ mainPc = "make"
    /\ Fresh

NextLive ==
    \/ MainStep
    \/ \E w \in Ids : WorkerStep(w)
    \/ Answer

Fairness ==
    /\ WF_vars(MainStep)
    /\ \A w \in 0 .. (MaxClients - 1) : WF_vars(w \in Ids /\ WorkerStep(w))
    /\ WF_vars(Answer)

SpecLive == InitLive /\ [][NextLive]_vars /\ Fairness

\* ============================================================== claims
Categories == {"net", "bad", "succ"}
AtSend(w) == worker[w].pc = "send"
ChanIndexes == 1 .. Len(bufferedChan)
PastDrain == {"persist", "stat", "prompt", "write", "writing", "report", "done"}
BeforeWrite ==
    {"make", "add", "spawn", "wait", "close", "drain", "persist", "stat",
     "prompt", "write"}

\* C1: in a run that reaches the report (no os.Exit on an interrupt before
\* it), the number of outcomes drained, total, is clients * requests, and
\* that is the number the report prints.
C1_TotalIsClientsTimesRequests ==
    /\ mainPc \in PastDrain => total = clients * requests
    /\ mainPc = "done" => printed.total = clients * requests

C1_Witness ==
    /\ mainPc = "done" /\ clients = 2 /\ requests = 2
    /\ printed.total = 4 /\ sigChannel = 0

\* C2: every outcome a goroutine emits has a category among net, bad and
\* succ, and after every drain step succ + badFailed + netFailed = total.
C2_CategoriesPartitionTotal ==
    /\ \A w \in Ids : AtSend(w) => worker[w].out.category \in Categories
    /\ \A k \in ChanIndexes : bufferedChan[k].category \in Categories
    /\ succ + badFailed + netFailed = total

C2_Witness ==
    /\ mainPc = "done" /\ succ >= 1 /\ badFailed >= 1 /\ netFailed >= 1
    /\ succ + badFailed + netFailed = total

\* C3: an attempt whose exchange and body read succeed is succ exactly when
\* the status code is in 200..299, and bad for every other status code.
C3_StatusDecides ==
    \A w \in Ids :
        (AtSend(w) /\ worker[w].att.err = "" /\ ~worker[w].att.readErr) =>
            /\ worker[w].out.category = "succ" <=>
                   worker[w].att.status \in 200 .. 299
            /\ worker[w].att.status \notin 200 .. 299 =>
                   worker[w].out.category = "bad"

\* C4: an attempt whose exchange succeeds and whose body read fails is bad,
\* whatever the status code.
C4_ReadFailureIsBad ==
    \A w \in Ids :
        (AtSend(w) /\ worker[w].att.err = "" /\ worker[w].att.readErr) =>
            worker[w].out.category = "bad"

\* C5: every goroutine calls client.Do exactly `requests` times and sends
\* one outcome per call: sends never run ahead of calls nor fall more than
\* the pending one behind, and a goroutine that returned has made exactly
\* `requests` calls and sends, whatever the outcomes were.
C5_QuotaAttemptsOneOutcomeEach ==
    \A w \in Ids :
        /\ emitted[w] <= attempts[w] /\ attempts[w] <= emitted[w] + 1
        /\ attempts[w] <= requests
        /\ worker[w].pc \in {"loop", "done"} => attempts[w] = emitted[w]
        /\ worker[w].pc \in {"body", "do", "send"} => attempts[w] = emitted[w] + 1
        /\ worker[w].pc = "done" =>
               attempts[w] = requests /\ emitted[w] = requests

C5_Witness ==
    /\ clients = 1 /\ requests = 2 /\ worker[0].pc = "done"
    /\ Len(bufferedChan) = 2
    /\ bufferedChan[1].category = "net" /\ bufferedChan[2].category = "bad"

\* C6: the capacity of the channel is clients * requests, the channel never
\* holds more than that, and a goroutine that stands at its send finds the
\* channel open with room left.
C6_SendNeverBlocks ==
    /\ mainPc \notin {"make", "exited"} => chanCap = clients * requests
    /\ Len(bufferedChan) <= clients * requests
    /\ \A w \in Ids : AtSend(w) => Len(bufferedChan) < chanCap /\ ~closed

C6_Witness ==
    /\ clients = 2 /\ requests = 2
    /\ \E w \in Ids : AtSend(w) /\ Len(bufferedChan) = chanCap - 1

\* C7: once barrier.Wait has returned (main is at the close, the drain or
\* the report) every goroutine has returned from bench; no send meets a
\* closed channel and nothing is drained while a goroutine still runs.
C7_WaitReturnsAfterAllWorkers ==
    /\ mainPc \in {"close", "drain"} \cup PastDrain =>
           \A w \in Ids : worker[w].pc = "done" /\ emitted[w] = requests
    /\ closed /\ mainPc # "exited" => \A w \in Ids : worker[w].pc = "done"
    /\ total > 0 /\ mainPc # "exited" => \A w \in Ids : worker[w].pc = "done"
    /\ ~panicked

C7_Witness ==
    /\ clients = 2 /\ mainPc = "drain" /\ closed /\ total = 1
    /\ bufferedChan # << >>

\* C8: every attempt sends the configured body: the bytes read for it from
\* the request's body reader are the whole of requestBody.
C8_FreshBodyEveryAttempt ==
    \A w \in Ids : worker[w].pc \in {"do", "send"} => worker[w].att.sent = requestBody

\* C9: with -redirects -1 an attempt never follows a redirect: it makes one
\* request, and a 3xx response is returned and classified bad.
C9_NeverFollow ==
    (revision = 2 /\ redirects = -1) =>
        \A w \in Ids :
            /\ worker[w].pc \in {"do", "send"} => worker[w].att.nreq = 1
            /\ (AtSend(w) /\ worker[w].att.redirs >= 1) =>
                   /\ worker[w].att.err = ""
                   /\ worker[w].att.status \in RedirectStatuses
            /\ (AtSend(w) /\ worker[w].att.err = ""
                          /\ worker[w].att.status \in 300 .. 399) =>
                   worker[w].out.category = "bad"

C9_Witness ==
    /\ revision = 2 /\ redirects = -1
    /\ \E w \in Ids :
          /\ AtSend(w) /\ worker[w].att.redirs = 1 /\ worker[w].att.nreq = 1
          /\ worker[w].att.status = 302
          /\ worker[w].out.category = "bad"

\* C10: with -redirects N >= 0, an attempt that meets N+1 redirects in a row
\* is net; one that meets at most N has followed them all and is classified
\* by the exchange that ended the chain.
C10_RedirectLimit ==
    (revision = 2 /\ redirects >= 0) =>
        \A w \in Ids : AtSend(w) =>
            LET att == worker[w].att
                cat == worker[w].out.category
            IN /\ att.redirs <= redirects + 1
               /\ att.redirs = redirects + 1 => cat = "net"
               /\ att.redirs <= redirects =>
                      /\ att.nreq = att.redirs + 1
                      /\ att.err # "redirect"
                      /\ att.err = "transport" => cat = "net"
                      /\ att.err = "" =>
                             /\ att.status \notin RedirectStatuses
                             /\ cat = IF att.readErr THEN "bad"
                                      ELSE IF att.status \in 200 .. 299
                                           THEN "succ" ELSE "bad"

C10_Witness ==
    /\ revision = 2 /\ redirects = 1
    /\ \E w \in Ids :
          /\ AtSend(w) /\ worker[w].att.redirs = 2 /\ worker[w].att.nreq = 2
          /\ worker[w].out.category = "net"

\* C11: a header entry without exactly one ":", a body file that does not
\* open, or a target that does not parse ends the process at startup: no
\* goroutine is ever spawned and no request is ever sent.
C11_ColonCount(header) == Cardinality({i \in 1 .. Len(header) : header[i] = ":"})
C11_BadInput ==
    \/ \E i \in 1 .. Len(requestHeaders) : C11_ColonCount(requestHeaders[i]) # 1
    \/ bodyFile = "missing"
    \/ mainPc # "parse" /\ urlClean.err
C11_StartupAborts ==
    C11_BadInput =>
        /\ mainPc \in {"parse", "request", "exited"}
        /\ mainPc = "exited" => exitCause = "fatal"
        /\ \A w \in Ids : worker[w].pc = "unborn" /\ attempts[w] = 0
        /\ spawned = 0 /\ ~httpRequest.built

C11_Witness ==
    /\ mainPc = "exited" /\ exitCause = "fatal"
    /\ ~urlClean.err /\ bodyFile = "none" /\ requestMethod = "GET"
    /\ requestHeaders = <<(<<"X-Foo", ":", "bar">>), (<<"a", ":", "b", ":", "c">>)>>
    /\ \A w \in Ids : worker[w].pc = "unborn"

\* C12 as stated: once the interrupt signal is received, in whatever phase,
\* no line of the summary is printed and the output file is not touched.
C12_InterruptMeansNoReport ==
    (sigChannel > 0 \/ exitCause = "interrupt") =>
        lines = 0 /\ printed = NotPrinted /\ disk = "untouched"

\* C12: the listener's os.Exit(0) adds nothing to the report: an exit while
\* main has not begun to write the file (workers running, waiting,
\* draining, before the write) leaves no summary line and no file; an exit
\* during the write leaves the file truncated and no summary line; an exit
\* during the report leaves the lines printed before it, never all of them.
C12_ExitAddsNothing ==
    (mainPc = "exited" /\ exitCause = "interrupt") =>
        /\ exitedAt \in BeforeWrite =>
               lines = 0 /\ printed = NotPrinted /\ disk = "untouched"
        /\ exitedAt = "writing" =>
               lines = 0 /\ printed = NotPrinted /\ disk = "truncated"
        /\ exitedAt = "report" => lines < ReportLines(revision)
        /\ exitedAt \in BeforeWrite \cup {"writing", "report"}

C12_Witness ==
    /\ mainPc = "exited" /\ exitCause = "interrupt" /\ exitedAt = "drain"
    /\ clients = 2 /\ outputFile # ""
    /\ lines = 0 /\ disk = "untouched"

\* C13: a target without a scheme, such as example.com/path, is normalized
\* before the request is built to scheme http with host and path kept, and
\* the attempts go to that http URL.
C13_SchemelessTargetBecomesHttp ==
    /\ (mainPc # "parse" /\ urlDirty = <<"example.com", "/path">>) =>
           urlClean = [err |-> FALSE, scheme |-> "http",
                       host |-> "example.com", path |-> <<"/path">>]
    /\ \A w \in Ids : worker[w].pc \in {"body", "do", "send"} =>
           urlClean.scheme \in SchemeWords


\* C14 as stated: every run that ends without an interrupt has printed the
\* whole summary.
C14_SummaryAlwaysPrinted ==
    (mainPc \in {"done", "exited"} /\ exitCause # "interrupt") =>
        lines = ReportLines(revision)

\* C14: a failed write of the output file never ends the process: main goes
\* on to the report, and when it returns the whole summary is printed with
\* the drained counts.  The one exit after the drain that is no interrupt
\* is the declined overwrite of an existing output file, before any write
\* and before the summary.
C14_WriteFailureNotFatal ==
    /\ mainPc = "done" =>
           /\ lines = ReportLines(revision)
           /\ printed = [total |-> total, succ |-> succ,
                         netFailed |-> netFailed, badFailed |-> badFailed]
    /\ disk = "failed" =>
           \/ mainPc \in {"report", "done"}
           \/ mainPc = "exited" /\ exitCause = "interrupt" /\ exitedAt = "report"
    /\ mainPc = "exited" => exitCause \in {"interrupt", "declined"}
    /\ exitCause = "declined" =>
           exitedAt = "prompt" /\ lines = 0 /\ disk = "untouched"

C14_Witness ==
    /\ mainPc = "done" /\ outputFile # "" /\ disk = "failed"
    /\ lines = ReportLines(revision) /\ printed.total = clients * requests
    /\ sigChannel = 0


\* A step in which goroutine w, in revision 2, meets a redirect response;
\* the redirects it has followed so far for this attempt; and the three
\* ways the step can end.
C15_RedirectStep(w) ==
    /\ revision = 2 /\ worker[w].pc = "do"
    /\ worker'[w].att.redirs = worker[w].att.redirs + 1
C15_AlreadyFollowed(w) == worker[w].att.nreq - 1
C15_Followed(w) ==
    worker'[w].pc = "do" /\ worker'[w].att.nreq = worker[w].att.nreq + 1
C15_Stopped(w) ==
    /\ worker'[w].pc = "send" /\ worker'[w].att.nreq = worker[w].att.nreq
    /\ worker'[w].att.err = "" /\ worker'[w].att.status \in RedirectStatuses
C15_Aborted(w) ==
    /\ worker'[w].pc = "send" /\ worker'[w].att.nreq = worker[w].att.nreq
    /\ worker'[w].att.err = "redirect" /\ worker'[w].out.category = "net"

\* C15 as stated: with c the redirects already followed, the redirect is
\* followed if c <= maxRedirects and the chain aborted if c > maxRedirects.
C15_FollowUpToCount ==
    [][\A w \in Ids : C15_RedirectStep(w) =>
          /\ redirects = -1 => C15_Stopped(w)
          /\ (redirects >= 0 /\ C15_AlreadyFollowed(w) <= redirects) =>
                 C15_Followed(w)
          /\ (redirects >= 0 /\ C15_AlreadyFollowed(w) > redirects) =>
                 C15_Aborted(w)]_vars

\* C15: on each redirect response of an attempt, with c the redirects the
\* attempt has already followed: with maxRedirects = -1 the chain stops and
\* the redirect response is returned; with c < maxRedirects the redirect is
\* followed; with c >= maxRedirects the chain is aborted and the attempt is
\* a net outcome.  No attempt follows more than maxRedirects redirects.
C15_FollowBelowCount ==
    [][\A w \in Ids : C15_RedirectStep(w) =>
          /\ redirects = -1 => C15_Stopped(w)
          /\ (redirects >= 0 /\ C15_AlreadyFollowed(w) < redirects) =>
                 C15_Followed(w)
          /\ (redirects >= 0 /\ C15_AlreadyFollowed(w) >= redirects) =>
                 C15_Aborted(w)]_vars

C15_Witness ==
    /\ revision = 2 /\ redirects = 1
    /\ \E w \in Ids :
          /\ worker[w].pc = "do"
          /\ worker[w].att.redirs = 1 /\ worker[w].att.nreq = 2


\* C16: for every schedule of the goroutines, the counters after the drain,
\* and the counts the report prints, are the numbers of attempts classified
\* net, bad and succ; during the drain no counter is ahead of them.
C16_CountsAreExact ==
    /\ netFailed <= classified["net"] /\ badFailed <= classified["bad"]
    /\ succ <= classified["succ"]
    /\ mainPc \in PastDrain =>
           /\ netFailed = classified["net"]
           /\ badFailed = classified["bad"]
           /\ succ = classified["succ"]
           /\ classified["net"] + classified["bad"] + classified["succ"]
                  = clients * requests
    /\ mainPc = "done" =>
           /\ printed.netFailed = classified["net"]
           /\ printed.badFailed = classified["bad"]
           /\ printed.succ = classified["succ"]

C16_Witness ==
    /\ clients = 2 /\ requests = 2 /\ mainPc = "done"
    /\ classified["succ"] = 4
    /\ printed = [total |-> 4, succ |-> 4, netFailed |-> 0, badFailed |-> 0]

\* The payloads, in order, of the outcomes of one category in a sequence.
C17_IsNet(output) == output.category = "net"
C17_IsBad(output) == output.category = "bad"
C17_IsSucc(output) == output.category = "succ"
C17_Payloads(outputs) == [k \in 1 .. Len(outputs) |-> outputs[k].respBody]
C17_Drained == SubSeq(enqueued, 1, total)

\* C17: the channel is drained in send order and every outcome sent is
\* consumed once: the outcomes drained so far are the first `total` sent,
\* the channel holds the rest in send order, each body list of the result
\* file is the payloads of the drained outcomes of its category in send
\* order, and when the drain has ended the channel is empty and every
\* outcome sent is drained.
C17_FifoDrainOnce ==
    /\ total <= Len(enqueued)
    /\ bufferedChan = SubSeq(enqueued, total + 1, Len(enqueued))
    /\ file.Net = C17_Payloads(SelectSeq(C17_Drained, C17_IsNet))
    /\ file.Bad = C17_Payloads(SelectSeq(C17_Drained, C17_IsBad))
    /\ file.Succ = C17_Payloads(SelectSeq(C17_Drained, C17_IsSucc))
    /\ mainPc \in PastDrain =>
           /\ bufferedChan = << >> /\ closed
           /\ total = Len(enqueued) /\ total = clients * requests

C17_Witness ==
    /\ clients = 1 /\ requests = 2 /\ mainPc = "persist"
    /\ Len(enqueued) = 2
    /\ enqueued[1] = Output("succ", "a") /\ enqueued[2] = Output("succ", "b")
    /\ file.Succ = <<"a", "b">>

\* The goroutines that have not returned from bench, spawned or not.
C19_NotReturned == {w \in Ids : worker[w].pc # "done"}

\* C19: barrier.Add(clients) comes before any goroutine is spawned; from
\* then on the WaitGroup counter is the number of goroutines that have not
\* returned, never negative; every goroutine calls barrier.Done once, when
\* it returns, after its last send.
C19_BarrierCountsRunning ==
    /\ mainPc \in {"parse", "request", "make", "add"} =>
           barrier = 0 /\ \A w \in Ids : worker[w].pc = "unborn"
    /\ mainPc \notin {"parse", "request", "make", "add", "exited"} =>
           barrier = Cardinality(C19_NotReturned)
    /\ barrier >= 0 /\ ~panicked
    /\ \A w \in Ids :
           /\ doneSignals[w] = (IF worker[w].pc = "done" THEN 1 ELSE 0)
           /\ worker[w].pc = "done" => emitted[w] = requests

C19_Witness ==
    /\ clients = 2 /\ requests = 2 /\ mainPc = "wait" /\ barrier = 1
    /\ worker[0].pc = "done" /\ doneSignals[0] = 1
    /\ worker[1].pc = "send" /\ emitted[1] = 1


\* C18 as stated: with no interrupt, under fair scheduling, the report is
\* eventually produced.
C18_ReportEventuallyProduced == <>(mainPc = "done")

\* C18: with no interrupt, under fair scheduling, every goroutine finishes
\* its quota and barrier.Wait returns; then the report is produced, unless
\* the output file exists and its overwrite is declined.
C18_WorkersFinishThenReportOrDeclined ==
    /\ <>(/\ mainPc = "close"
          /\ \A w \in Ids : worker[w].pc = "done" /\ emitted[w] = requests)
    /\ <>(\/ mainPc = "done" /\ lines = ReportLines(revision)
          \/ mainPc = "exited" /\ exitCause = "declined")

C18_Witness ==
    /\ clients = 2 /\ requests = 2 /\ mainPc = "done"
    /\ \A w \in Ids : worker[w].pc = "done" /\ emitted[w] = 2
    /\ outputFile # "" /\ disk = "written"
    /\ lines = ReportLines(revision) /\ printed.total = 4

====
